---- MODULE Spec2Model ----
(***************************************************************************)
(* Live telemetry ingestion of the N-body visualizer                        *)
(* (src/realtime_visualizer.py, class RealtimeNBodyVisualizer):             *)
(*   - load_snapshot         the snapshot decoder                           *)
(*   - monitor_files         the monitor thread polling data.con/status.txt *)
(*   - update_visualization  the render tick draining data_queue            *)
(* together with the external engine that (over)writes the artifacts.       *)
(*                                                                          *)
(* A file is a sequence of lines, a line a sequence of tokens, a token its  *)
(* lexical class and value: "int" (accepted by int() and float()), "float"  *)
(* (accepted by float() only) or "word" (accepted by neither).  Floats are  *)
(* kept integer-valued; coordinates are chosen so that every Euclidean      *)
(* distance that occurs is an exact integer.                                *)
(***************************************************************************)
EXTENDS Integers, Sequences, FiniteSets, TLC

VARIABLES
    running,        \* self.running
    simulations,    \* self.simulations: instance id -> per-instance dict
    data_queue,     \* self.data_queue (FIFO, unbounded queue.Queue)
    fs_data,        \* the data.con artifact of each instance, as the OS holds it
    fs_status,      \* the status.txt marker of each instance
    engine,         \* the external engine of each instance: snapshot being written
    mon,            \* monitor thread: position and locals of monitor_files/load_snapshot
    ren,            \* render tick: position and locals of update_visualization
    observed,       \* history: sequence indices dequeued so far, per instance
    emitted,        \* history: decoded snapshots put on the queue so far, per instance
    writers,        \* history: which thread has written which field of an instance dict
    polls,          \* history: how the last completed poll cycle of each instance ended
    decIn,          \* decoder harness: the artifact handed to load_snapshot
    decOut          \* decoder harness: what load_snapshot returned

vars == <<running, simulations, data_queue, fs_data, fs_status, engine,
          mon, ren, observed, emitted, writers, polls, decIn, decOut>>

pipeVars == <<running, simulations, data_queue, fs_data, fs_status, engine,
              mon, ren, observed, emitted, writers, polls>>

decVars == <<decIn, decOut>>

-----------------------------------------------------------------------------
(* Bounds of the model *)

\* instances monitored (the program monitors the four of `processors`)
NumInst == 2
\* write() calls of an engine at most
MaxWrites == 4
\* write() calls of the engine where files also come and go
MaxFileWrites == 2
\* write() calls of the engine writing a single artifact
MaxPollWrites == 3
\* write() calls of the engine while the window gets closed
MaxStopWrites == 2
\* snapshots handed to the render tick
MaxFeeds == 12
\* snapshots waiting in the queue of the render tick on its own
MaxBacklog == 1
\* render ticks at most
MaxTicks == 2
\* snapshots of changing particle counts handed to the render tick
MaxTrailFeeds == 3
\* write() calls of the engine next to an instance whose engine was killed
MaxLeftoverWrites == 2
\* lines of an artifact handed to the decoder harness
MaxLines == 5
\* snapshot files the engine of the first generation leaves
MaxSnapshotFiles == 2
\* snapshots the first-generation monitor puts on the queue for one instance
MaxPuts1 == 3

-----------------------------------------------------------------------------
(* Python's None *)
None == [none |-> TRUE]

(* Tokens *)
I(v) == [k |-> "int", v |-> v]
F(v) == [k |-> "float", v |-> v]
W == [k |-> "word", v |-> 0]

\* int(s.strip()) of a line: a single token of class int
IntOk(line) == Len(line) = 1 /\ line[1].k = "int"
\* float(s) of one token
FloatTokOk(t) == t.k \in {"int", "float"}
\* float(s.strip()) of a line
FloatOk(line) == Len(line) = 1 /\ FloatTokOk(line[1])

\* bytes of a token as written, with its separator
TokBytes(t) ==
    1 + (IF t.v < 0 THEN 1 ELSE 0) + (IF t.v > 9 \/ t.v < -9 THEN 2 ELSE 1)
      + (IF t.k = "float" THEN 2 ELSE 0)

RECURSIVE LineBytes(_)
LineBytes(line) ==
    IF line = <<>> THEN 1
    ELSE TokBytes(Head(line)) + LineBytes(Tail(line))

\* os.path.getsize of a file holding these lines
RECURSIVE FileSize(_)
FileSize(lines) ==
    IF lines = <<>> THEN 0
    ELSE LineBytes(Head(lines)) + FileSize(Tail(lines))

-----------------------------------------------------------------------------
(* load_snapshot, the parsing part (lines 264-303) *)

\* one iteration of the particle loop: masses.append precedes positions.append,
\* and a ValueError between the two leaves the mass appended
ParseLine(parts, acc) ==
    IF Len(parts) >= 8
    THEN IF FloatTokOk(parts[2])
         THEN IF FloatTokOk(parts[3]) /\ FloatTokOk(parts[4]) /\ FloatTokOk(parts[5])
              THEN [masses    |-> Append(acc.masses, parts[2].v),
                    positions |-> Append(acc.positions,
                                         <<parts[3].v, parts[4].v, parts[5].v>>)]
              ELSE [acc EXCEPT !.masses = Append(acc.masses, parts[2].v)]
         ELSE acc
    ELSE acc

\* for i in range(3, 3 + n_particles), 1-based here
RECURSIVE ParseParticles(_, _, _, _)
ParseParticles(lines, i, last, acc) ==
    IF i > last \/ i > Len(lines) THEN acc
    ELSE ParseParticles(lines, i + 1, last, ParseLine(lines[i], acc))

\* the final test without its count: whatever parsed is returned
Accepts_AnyParsed(acc, n_particles) == acc.positions # <<>>

\* the final test counting the masses instead of the positions
Accepts_CountMasses(acc, n_particles) ==
    Len(acc.masses) = n_particles /\ acc.positions # <<>>

\* the final test without its "and positions"
Accepts_CountOnly(acc, n_particles) == Len(acc.positions) = n_particles

\* the final test: "if len(positions) == n_particles and positions"
Accepts(acc, n_particles) ==
    Len(acc.positions) = n_particles /\ acc.positions # <<>>

\* the lines given, what load_snapshot returns
ParseSnapshot(lines) ==
    IF Len(lines) < 4 THEN None
    ELSE IF ~(IntOk(lines[2]) /\ FloatOk(lines[3])) THEN None
    ELSE LET n_particles == lines[2][1].v
             sim_time    == lines[3][1].v
         IN  IF Len(lines) < 3 + n_particles THEN None
             ELSE LET acc == ParseParticles(lines, 4, 3 + n_particles,
                                            [masses |-> <<>>, positions |-> <<>>])
                  IN  IF Accepts(acc, n_particles)
                      THEN [positions   |-> acc.positions,
                            masses      |-> acc.masses,
                            n_particles |-> Len(acc.positions),
                            time        |-> sim_time]
                      ELSE None

\* load_snapshot on a file nobody is writing: the two size reads agree
LoadStable(lines) ==
    IF FileSize(lines) = 0 THEN None ELSE ParseSnapshot(lines)

-----------------------------------------------------------------------------
(* The instances and their artifacts *)

\* self.processors = [1, 2, 4, 8], the first NumInst of them
processors == SubSeq(<<1, 2, 4, 8>>, 1, NumInst)
Insts == {processors[i] : i \in 1..NumInst}

\* particle counts an engine writes: its first snapshot has four particles,
\* a later one may have lost some
ParticleCounts(k) == IF k = 1 THEN {4} ELSE {4, 2}
\* decode durations (time.time() differences, in clock units)
LoadTimes == {1}
\* what status.txt may hold
StatusTexts == {"running\n", "done\n"}

\* str.strip()
Strip(s) ==
    CASE s = "running\n" -> "running"
      [] s = "done\n" -> "done"
      [] OTHER -> s

\* "<id> <mass> <x> <y> <z> <vx> <vy> <vz>" of particle j in snapshot k
ParticleLine(j, k) ==
    <<I(j), F(j), F(k * j), F(j), F(0), F(0), F(0), F(0)>>

\* the complete artifact of snapshot k with n particles
SnapshotLines(k, n) ==
    <<<<I(k)>>, <<I(n)>>, <<F(k)>>>> \o [j \in 1..n |-> ParticleLine(j, k)]

\* the artifact while the engine is half way through writing it
PartialLines(k, n) == SubSeq(SnapshotLines(k, n), 1, 3 + (n \div 2))

\* what the file holds at a stage of the engine's write
StageLines(stage, k, n) ==
    CASE stage = "empty" -> <<>>
      [] stage = "partial" -> PartialLines(k, n)
      [] OTHER -> SnapshotLines(k, n)

-----------------------------------------------------------------------------
(* numpy helpers *)

\* integer square root; exact on the distances that occur
ISqrt(s) == CHOOSE r \in 0..s : r * r <= s /\ s < (r + 1) * (r + 1)

\* np.linalg.norm(new_pos - old_pos, axis=1)
RowNorms(new_pos, old_pos) ==
    [j \in 1..Len(new_pos) |->
        ISqrt((new_pos[j][1] - old_pos[j][1]) * (new_pos[j][1] - old_pos[j][1])
            + (new_pos[j][2] - old_pos[j][2]) * (new_pos[j][2] - old_pos[j][2])
            + (new_pos[j][3] - old_pos[j][3]) * (new_pos[j][3] - old_pos[j][3]))]

\* np.zeros(n)
Zeros(n) == [j \in 1..n |-> 0]

\* lines 206-217: the velocities attached to `data`, given sim['particles']
Velocities(particles, data) ==
    IF particles # None
    THEN IF Len(particles.positions) = Len(data.positions)
         THEN RowNorms(data.positions, particles.positions)
         ELSE Zeros(data.n_particles)
    ELSE Zeros(data.n_particles)

\* self.trail_length = 10
trail_length == 10

\* a list's append, which never evicts
DequeAppend_Unbounded(dq, x) == Append(dq, x)

\* deque(maxlen=trail_length).append
DequeAppend(dq, x) ==
    IF Len(dq) >= trail_length THEN Append(Tail(dq), x) ELSE Append(dq, x)

\* self.rotation_speed = 0.5, in tenths of a degree
rotation_speed == 5

-----------------------------------------------------------------------------
(* State after construction (__init__, lines 38-131) *)

\* t_end_val = 100.0, what line 104 assumes without a phi-GPU4.cfg
t_end_default == 100

SimInit(P) ==
    [processors       |-> P,
     t_end            |-> t_end_default,
     particles        |-> None,
     current_snapshot |-> -1,
     snapshots        |-> <<>>,
     status           |-> "waiting",
     start_time       |-> None,
     processing_times |-> <<>>,
     rotation_angle   |-> 0,
     velocities       |-> None,
     current_time     |-> 0,
     last_mtime       |-> 0]

Fields == {"particles", "current_snapshot", "snapshots", "status", "start_time",
           "processing_times", "rotation_angle", "velocities", "current_time",
           "last_mtime"}

\* a local not assigned yet
Unset == [unset |-> TRUE]

\* the monitor thread: its position, the locals of monitor_files and load_snapshot
\* (cleared when dead), and the history of the poll cycle in progress:
\*   outcome  how the cycle went so far
\*   torn     a stability check of the cycle read two sizes that differ, or 0
\*   incs     how many times the cycle stored sim['current_snapshot']
\*   ver0     the generation of data.con when the cycle began
\*   emits0   how many snapshots of the instance had been enqueued by then
\*   marker0  sim['last_mtime'] when the cycle began
MonLocals ==
    [pc |-> "while", i |-> 1, current_mtime |-> 0, initial_size |-> 0,
     final_size |-> 0, l_initial_size |-> 0, attempt |-> 0, data |-> Unset,
     load_time |-> 0, cs |-> 0,
     outcome |-> "polling", torn |-> FALSE, incs |-> 0,
     ver0 |-> 0, emits0 |-> 0, marker0 |-> 0]

\* the render tick: its position, the item being folded, the scene it hands
\* back (the progress fraction of each instance drawn, in thousandths), and the
\* history of the tick in progress:
\*   pending  how many of the items queued when the tick began are still queued
RenInit ==
    [pc |-> "idle", ticks |-> 0, item |-> None, scene |-> None, pending |-> 0]

\* `left`: the write() calls the engine of each instance still performs;
\* `markers`: the status.txt the launcher left in each instance directory;
\* `t_end`: what lines 102-112 read from the phi-GPU4.cfg of each instance
PipeInitWith(left, markers, t_end) ==
    /\ running = TRUE
    /\ simulations = [P \in Insts |-> [SimInit(P) EXCEPT !.t_end = t_end[P]]]
    /\ data_queue = <<>>
    /\ fs_data = [P \in Insts |->
                     [exists |-> FALSE, mtime |-> 0, lines |-> <<>>, ver |-> 0]]
    /\ fs_status = markers
    /\ engine = [P \in Insts |->
                    [k |-> 0, n |-> 0, stage |-> "full", left |-> left[P]]]
    /\ mon = MonLocals
    /\ ren = RenInit
    /\ observed = [P \in Insts |-> <<>>]
    /\ emitted = [P \in Insts |-> <<>>]
    /\ writers = [P \in Insts |-> [f \in Fields |-> {}]]
    /\ polls = [P \in Insts |-> "none"]

\* no instance directory holds a phi-GPU4.cfg
PipeInit(left, markers) ==
    PipeInitWith(left, markers, [P \in Insts |-> t_end_default])

Pending == [pending |-> TRUE]

\* only the engine of the first instance runs, for w write() calls
OneEngine(w) == [P \in Insts |-> IF P = processors[1] THEN w ELSE 0]

NoMarker == [exists |-> FALSE, text |-> ""]
\* the launcher marked the first instance as running
OneMarker ==
    [P \in Insts |-> IF P = processors[1]
                     THEN [exists |-> TRUE, text |-> "running\n"]
                     ELSE NoMarker]

Init ==
    /\ PipeInit(OneEngine(MaxWrites), OneMarker)
    /\ decIn = <<>>
    /\ decOut = Pending

-----------------------------------------------------------------------------
(* The environment: the engine writing data.con, the orchestrator's files *)

LaterStages(stage) ==
    CASE stage = "empty" -> {"partial", "full"}
      [] stage = "partial" -> {"full"}
      [] OTHER -> {}

\* a write stamps the file: the same timestamp granule as before, or a later one
Stamps(mtime) == IF mtime = 0 THEN {1} ELSE {mtime, mtime + 1}

\* the engine opens data.con for its next snapshot: open(..., 'w') truncates
E_Start(P) ==
    /\ engine[P].left > 0
    /\ \E n \in ParticleCounts(engine[P].k + 1), t \in Stamps(fs_data[P].mtime) :
          /\ engine' = [engine EXCEPT ![P] = [k |-> @.k + 1, n |-> n, stage |-> "empty",
                                              left |-> @.left - 1]]
          /\ fs_data' = [fs_data EXCEPT ![P] =
                            [exists |-> TRUE, mtime |-> t, lines |-> <<>>,
                             ver |-> @.ver + 1]]
    /\ UNCHANGED <<running, simulations, data_queue, fs_status, mon, ren,
                   observed, emitted, writers, polls, decVars>>

\* the engine writes more of the snapshot it has open
E_Continue(P) ==
    /\ engine[P].left > 0
    /\ fs_data[P].exists
    /\ \E stage \in LaterStages(engine[P].stage), t \in Stamps(fs_data[P].mtime) :
          /\ engine' = [engine EXCEPT ![P].stage = stage, ![P].left = @ - 1]
          /\ fs_data' = [fs_data EXCEPT ![P] =
                            [exists |-> TRUE, mtime |-> t,
                             lines |-> StageLines(stage, engine[P].k, engine[P].n),
                             ver |-> @.ver + 1]]
    /\ UNCHANGED <<running, simulations, data_queue, fs_status, mon, ren,
                   observed, emitted, writers, polls, decVars>>

\* data.con is removed (a cleaned run directory)
E_Remove(P) ==
    /\ fs_data[P].exists
    /\ fs_data' = [fs_data EXCEPT ![P].exists = FALSE, ![P].lines = <<>>,
                                   ![P].ver = @ + 1]
    /\ engine' = [engine EXCEPT ![P].stage = "full"]
    /\ UNCHANGED <<running, simulations, data_queue, fs_status, mon, ren,
                   observed, emitted, writers, polls, decVars>>

\* status.txt is written
E_Status(P) ==
    /\ \E text \in StatusTexts :
          /\ ~(fs_status[P].exists /\ fs_status[P].text = text)
          /\ fs_status' = [fs_status EXCEPT ![P] = [exists |-> TRUE, text |-> text]]
    /\ UNCHANGED <<running, simulations, data_queue, fs_data, engine, mon, ren,
                   observed, emitted, writers, polls, decVars>>

\* status.txt is removed
E_StatusRemove(P) ==
    /\ fs_status[P].exists
    /\ fs_status' = [fs_status EXCEPT ![P] = NoMarker]
    /\ UNCHANGED <<running, simulations, data_queue, fs_data, engine, mon, ren,
                   observed, emitted, writers, polls, decVars>>

-----------------------------------------------------------------------------
(* monitor_files (lines 180-236), one action per interleaving point *)

\* the instance the for-loop is at
CurP == processors[mon.i]

\* leave the data.con block for "# Verificar estado" (line 231)
ToStatus(outcome) ==
    [MonLocals EXCEPT !.pc = "status_exists", !.i = mon.i, !.outcome = outcome,
                      !.torn = mon.torn, !.incs = mon.incs, !.ver0 = mon.ver0,
                      !.emits0 = mon.emits0, !.marker0 = mon.marker0]

\* what the history keeps of a poll cycle that is over
Ended == IF mon.torn THEN "torn" ELSE mon.outcome

\* next instance of the for-loop, or time.sleep(0.05) and back to the while
NextInstance ==
    IF mon.i < NumInst
    THEN [MonLocals EXCEPT !.pc = "exists", !.i = mon.i + 1]
    ELSE MonLocals

Wrote(P, f, thread) == [writers EXCEPT ![P][f] = @ \cup {thread}]

\* the loop of line 182 not reading the flag
M_While_Forever ==
    /\ mon.pc = "while"
    /\ mon' = [MonLocals EXCEPT !.pc = "exists"]
    /\ UNCHANGED <<running, simulations, data_queue, fs_data, fs_status, engine,
                   ren, observed, emitted, writers, polls, decVars>>

\* line 182: while self.running
M_While ==
    /\ mon.pc = "while"
    /\ mon' = IF running THEN [MonLocals EXCEPT !.pc = "exists"]
                         ELSE [MonLocals EXCEPT !.pc = "done"]
    /\ UNCHANGED <<running, simulations, data_queue, fs_data, fs_status, engine,
                   ren, observed, emitted, writers, polls, decVars>>

\* line 187: os.path.exists(data_con_file); a poll cycle of the instance begins
M_Exists ==
    /\ mon.pc = "exists"
    /\ LET began == [mon EXCEPT !.ver0 = fs_data[CurP].ver,
                                !.emits0 = Len(emitted[CurP]),
                                !.marker0 = simulations[CurP].last_mtime]
       IN  mon' = IF fs_data[CurP].exists
                  THEN [began EXCEPT !.pc = "getmtime"]
                  ELSE [began EXCEPT !.pc = "status_exists", !.outcome = "absent"]
    /\ UNCHANGED <<running, simulations, data_queue, fs_data, fs_status, engine,
                   ren, observed, emitted, writers, polls, decVars>>

\* the marker test letting an unchanged file through
IsNewer_OrSame(current_mtime, last_mtime) == current_mtime >= last_mtime

\* the modification-marker test of line 193
IsNewer(current_mtime, last_mtime) == current_mtime > last_mtime

\* lines 190-193: getmtime (OSError is caught at line 227) and the marker test
M_GetMtime ==
    /\ mon.pc = "getmtime"
    /\ mon' = IF ~fs_data[CurP].exists THEN ToStatus("error")
              ELSE IF IsNewer(fs_data[CurP].mtime, simulations[CurP].last_mtime)
              THEN [mon EXCEPT !.pc = "size1", !.current_mtime = fs_data[CurP].mtime]
              ELSE ToStatus("unchanged")
    /\ UNCHANGED <<running, simulations, data_queue, fs_data, fs_status, engine,
                   ren, observed, emitted, writers, polls, decVars>>

\* line 195: initial_size = os.path.getsize
M_Size1 ==
    /\ mon.pc = "size1"
    /\ mon' = IF fs_data[CurP].exists
              THEN [mon EXCEPT !.pc = "size2",
                               !.initial_size = FileSize(fs_data[CurP].lines)]
              ELSE ToStatus("error")
    /\ UNCHANGED <<running, simulations, data_queue, fs_data, fs_status, engine,
                   ren, observed, emitted, writers, polls, decVars>>

\* the stability test without the comparison of the two sizes
IsStable_NonEmpty(initial_size, final_size) == final_size > 0

\* line 199: the stability test
IsStable(initial_size, final_size) == initial_size = final_size /\ final_size > 0

\* lines 196-199: after the sleep, final_size and the stability test
M_Size2 ==
    /\ mon.pc = "size2"
    /\ IF ~fs_data[CurP].exists
       THEN mon' = ToStatus("error")
       ELSE LET final_size == FileSize(fs_data[CurP].lines)
                torn == mon.initial_size # final_size \/ final_size = 0
            IN  mon' = IF IsStable(mon.initial_size, final_size)
                       THEN [mon EXCEPT !.pc = "l_size1", !.final_size = final_size,
                                        !.torn = torn]
                       ELSE [ToStatus("unstable") EXCEPT !.torn = torn]
    /\ UNCHANGED <<running, simulations, data_queue, fs_data, fs_status, engine,
                   ren, observed, emitted, writers, polls, decVars>>

\* the monitor advancing the marker whatever load_snapshot returned
AfterLoad_Always(data, load_time) ==
    IF data # None
    THEN [mon EXCEPT !.pc = "velocities", !.data = data, !.load_time = load_time,
                     !.l_initial_size = 0, !.attempt = 0]
    ELSE [mon EXCEPT !.pc = "set_mtime", !.data = data, !.load_time = load_time,
                     !.l_initial_size = 0, !.attempt = 0]

\* the monitor after load_snapshot returned `data` (line 204: if data is not None)
AfterLoad(data, load_time) ==
    IF data # None
    THEN [mon EXCEPT !.pc = "velocities", !.data = data, !.load_time = load_time,
                     !.l_initial_size = 0, !.attempt = 0]
    ELSE ToStatus(mon.outcome)

\* the history of a cycle whose load_snapshot returned `data`
Returned(m, data, torn) ==
    [m EXCEPT !.outcome = IF data = None THEN "rejected" ELSE @,
              !.torn = @ \/ torn]

\* load_snapshot line 242: initial_size (an exception returns None, line 305)
L_Size1 ==
    /\ mon.pc = "l_size1"
    /\ \E load_time \in LoadTimes :
          mon' = IF fs_data[CurP].exists
                 THEN [mon EXCEPT !.pc = "l_size2",
                                  !.l_initial_size = FileSize(fs_data[CurP].lines)]
                 ELSE Returned(AfterLoad(None, load_time), None, FALSE)
    /\ UNCHANGED <<running, simulations, data_queue, fs_data, fs_status, engine,
                   ren, observed, emitted, writers, polls, decVars>>

\* load_snapshot line 247: "if initial_size != final_size or final_size == 0"
StillChanging(initial_size, final_size) ==
    initial_size # final_size \/ final_size = 0

\* load_snapshot lines 243-248: final_size and the test
L_Size2 ==
    /\ mon.pc = "l_size2"
    /\ \E load_time \in LoadTimes :
          IF ~fs_data[CurP].exists
          THEN mon' = Returned(AfterLoad(None, load_time), None, FALSE)
          ELSE LET final_size == FileSize(fs_data[CurP].lines)
                   torn == mon.l_initial_size # final_size \/ final_size = 0
               IN  mon' = IF StillChanging(mon.l_initial_size, final_size)
                          THEN Returned(AfterLoad(None, load_time), None, torn)
                          ELSE [mon EXCEPT !.pc = "l_open", !.attempt = 0,
                                           !.torn = @ \/ torn]
    /\ UNCHANGED <<running, simulations, data_queue, fs_data, fs_status, engine,
                   ren, observed, emitted, writers, polls, decVars>>

max_retries == 3

\* load_snapshot lines 252-303: open with retries, readlines, parse
L_Open ==
    /\ mon.pc = "l_open"
    /\ \E load_time \in LoadTimes :
          mon' = IF fs_data[CurP].exists
                 THEN LET data == ParseSnapshot(fs_data[CurP].lines)
                      IN  Returned(AfterLoad(data, load_time), data, FALSE)
                 ELSE IF mon.attempt < max_retries - 1
                 THEN [mon EXCEPT !.attempt = @ + 1]
                 ELSE Returned(AfterLoad(None, load_time), None, FALSE)
    /\ UNCHANGED <<running, simulations, data_queue, fs_data, fs_status, engine,
                   ren, observed, emitted, writers, polls, decVars>>

\* lines 206-217: data['velocities'] from sim['particles']
M_Velocities ==
    /\ mon.pc = "velocities"
    /\ mon' = [mon EXCEPT !.pc = "set_mtime",
                  !.data = [positions   |-> mon.data.positions,
                            masses      |-> mon.data.masses,
                            n_particles |-> mon.data.n_particles,
                            time        |-> mon.data.time,
                            velocities  |-> Velocities(simulations[CurP].particles,
                                                       mon.data)]]
    /\ UNCHANGED <<running, simulations, data_queue, fs_data, fs_status, engine,
                   ren, observed, emitted, writers, polls, decVars>>

\* line 220: sim['last_mtime'] = current_mtime
M_SetMtime ==
    /\ mon.pc = "set_mtime"
    /\ simulations' = [simulations EXCEPT ![CurP].last_mtime = mon.current_mtime]
    /\ writers' = Wrote(CurP, "last_mtime", "monitor")
    /\ mon' = [mon EXCEPT !.pc = "inc_read"]
    /\ UNCHANGED <<running, data_queue, fs_data, fs_status, engine,
                   ren, observed, emitted, polls, decVars>>

\* line 221, the read of sim['current_snapshot'] += 1
M_IncRead ==
    /\ mon.pc = "inc_read"
    /\ mon' = [mon EXCEPT !.pc = "inc_write", !.cs = simulations[CurP].current_snapshot]
    /\ UNCHANGED <<running, simulations, data_queue, fs_data, fs_status, engine,
                   ren, observed, emitted, writers, polls, decVars>>

\* line 221, the store of sim['current_snapshot'] += 1
M_IncWrite ==
    /\ mon.pc = "inc_write"
    /\ simulations' = [simulations EXCEPT ![CurP].current_snapshot = mon.cs + 1]
    /\ writers' = Wrote(CurP, "current_snapshot", "monitor")
    /\ mon' = [mon EXCEPT !.pc = "put", !.cs = 0, !.incs = @ + 1]
    /\ UNCHANGED <<running, data_queue, fs_data, fs_status, engine,
                   ren, observed, emitted, polls, decVars>>

\* the decoded artifact of a snapshot, without what the monitor derives
Content(data) ==
    [positions |-> data.positions, masses |-> data.masses,
     n_particles |-> data.n_particles, time |-> data.time]

\* the tuple of line 223
QueueItem(P, data, idx, load_time) ==
    [P |-> P, data |-> data, snapshot_idx |-> idx, load_time |-> load_time]

\* line 223: self.data_queue.put((P, data, sim['current_snapshot'], load_time))
M_Put ==
    /\ mon.pc = "put"
    /\ data_queue' = Append(data_queue,
                            QueueItem(CurP, mon.data,
                                      simulations[CurP].current_snapshot,
                                      mon.load_time))
    /\ emitted' = [emitted EXCEPT ![CurP] = Append(@, mon.data)]
    /\ mon' = [mon EXCEPT !.pc = "set_running", !.data = Unset, !.load_time = 0,
                          !.current_mtime = 0, !.initial_size = 0, !.final_size = 0,
                          !.outcome = "emitted"]
    /\ UNCHANGED <<running, simulations, fs_data, fs_status, engine,
                   ren, observed, writers, polls, decVars>>

\* lines 224-226: sim['status'] = 'running' and the first start_time
M_SetRunning ==
    /\ mon.pc = "set_running"
    /\ simulations' = [simulations EXCEPT
                          ![CurP].status = "running",
                          ![CurP].start_time =
                              IF @ = None THEN [none |-> FALSE] ELSE @]
    /\ writers' = [writers EXCEPT
                      ![CurP]["status"] = @ \cup {"monitor"},
                      ![CurP]["start_time"] =
                          IF simulations[CurP].start_time = None
                          THEN @ \cup {"monitor"} ELSE @]
    /\ mon' = ToStatus(mon.outcome)
    /\ UNCHANGED <<running, data_queue, fs_data, fs_status, engine,
                   ren, observed, emitted, polls, decVars>>

\* line 232: os.path.exists(status_file); without a marker the cycle ends here
M_StatusExists ==
    /\ mon.pc = "status_exists"
    /\ IF fs_status[CurP].exists
       THEN /\ mon' = [mon EXCEPT !.pc = "status_open"]
            /\ UNCHANGED polls
       ELSE /\ mon' = NextInstance
            /\ polls' = [polls EXCEPT ![CurP] = Ended]
    /\ UNCHANGED <<running, simulations, data_queue, fs_data, fs_status, engine,
                   ren, observed, emitted, writers, decVars>>

\* what an exception raised at lines 233-234 does to the thread: no handler
\* encloses them, so it leaves monitor_files
StatusReadFailed == [MonLocals EXCEPT !.pc = "crashed", !.i = mon.i]

\* lines 233-234: open and sim['status'] = f.read().strip()
M_StatusOpen ==
    /\ mon.pc = "status_open"
    /\ IF fs_status[CurP].exists
       THEN /\ simulations' = [simulations EXCEPT
                                  ![CurP].status = Strip(fs_status[CurP].text)]
            /\ writers' = Wrote(CurP, "status", "monitor")
            /\ mon' = NextInstance
            /\ polls' = [polls EXCEPT ![CurP] = Ended]
       ELSE /\ mon' = StatusReadFailed
            /\ UNCHANGED <<simulations, writers, polls>>
    /\ UNCHANGED <<running, data_queue, fs_data, fs_status, engine,
                   ren, observed, emitted, decVars>>

-----------------------------------------------------------------------------
(* update_visualization (lines 309-488), the render tick *)

\* FuncAnimation fires the callback
R_Tick ==
    /\ ren.pc = "idle"
    /\ ren.ticks < MaxTicks
    /\ ren' = [ren EXCEPT !.pc = "drain", !.pending = Len(data_queue)]
    /\ UNCHANGED <<running, simulations, data_queue, fs_data, fs_status, engine,
                   mon, observed, emitted, writers, polls, decVars>>

\* lines 313-317: the emptiness test, get_nowait and sim['particles'] = data
R_Get ==
    /\ ren.pc = "drain"
    /\ IF data_queue = <<>>
       THEN /\ ren' = [ren EXCEPT !.pc = "draw"]
            /\ UNCHANGED <<simulations, data_queue, observed, writers>>
       ELSE LET item == Head(data_queue)
            IN  /\ data_queue' = Tail(data_queue)
                /\ simulations' = [simulations EXCEPT ![item.P].particles = item.data]
                /\ observed' = [observed EXCEPT ![item.P] = Append(@, item.snapshot_idx)]
                /\ writers' = Wrote(item.P, "particles", "render")
                /\ ren' = [ren EXCEPT !.pc = "fold", !.item = item,
                                       !.pending = IF @ > 0 THEN @ - 1 ELSE 0]
    /\ UNCHANGED <<running, fs_data, fs_status, engine, mon, emitted, polls, decVars>>

\* a fold that also clears the modification marker of the instance
Fold_ResetsMarker(sim, item) ==
    [sim EXCEPT !.current_snapshot = item.snapshot_idx,
                !.snapshots = DequeAppend(@, item.data),
                !.processing_times = Append(@, item.load_time),
                !.velocities = item.data.velocities,
                !.current_time = item.data.time,
                !.last_mtime = 0]

\* a fold that leaves sim['current_time'] as it was
Fold_StaleTime(sim, item) ==
    [sim EXCEPT !.current_snapshot = item.snapshot_idx,
                !.snapshots = DequeAppend(@, item.data),
                !.processing_times = Append(@, item.load_time),
                !.velocities = item.data.velocities]

\* lines 318-322: the rest of the fold of one item into the instance dict
Fold(sim, item) ==
    [sim EXCEPT !.current_snapshot = item.snapshot_idx,
                !.snapshots = DequeAppend(@, item.data),
                !.processing_times = Append(@, item.load_time),
                !.velocities = item.data.velocities,
                !.current_time = item.data.time]

R_Fold ==
    /\ ren.pc = "fold"
    /\ simulations' = [simulations EXCEPT ![ren.item.P] = Fold(@, ren.item)]
    /\ writers' = [writers EXCEPT ![ren.item.P] =
                      [f \in Fields |->
                          IF f \in {"current_snapshot", "snapshots", "processing_times",
                                    "velocities", "current_time"}
                          THEN @[f] \cup {"render"} ELSE @[f]]]
    /\ ren' = [ren EXCEPT !.pc = "drain", !.item = None]
    /\ UNCHANGED <<running, data_queue, fs_data, fs_status, engine, mon,
                   observed, emitted, polls, decVars>>

\* line 387: n_tracks = min(10, data['n_particles'])
max_tracks == 10

\* line 388: np.linspace(0, n - 1, n_tracks, dtype=int), the indices 0-based
TrackIds(n) ==
    LET n_tracks == IF n < max_tracks THEN n ELSE max_tracks
    IN  IF n_tracks = 1 THEN <<0>>
        ELSE [i \in 1..n_tracks |-> ((i - 1) * (n - 1)) \div (n_tracks - 1)]

\* what indexing past the end of an array raises
IndexError == [index_error |-> TRUE]

\* snap['positions'][tid] of line 394
Point(snap, tid) ==
    IF tid < Len(snap.positions) THEN snap.positions[tid + 1] ELSE IndexError

\* a trail taking a point from every snapshot of the history
TakesPoint_Always(tid, snap) == TRUE

\* line 393: if tid < len(snap['positions'])
TakesPoint(tid, snap) == tid < Len(snap.positions)

\* lines 391-394: the trajectory of particle tid over list(sim['snapshots'])
RECURSIVE Trajectory(_, _)
Trajectory(snaps, tid) ==
    IF snaps = <<>> THEN <<>>
    ELSE LET rest == Trajectory(Tail(snaps), tid)
         IN  IF TakesPoint(tid, Head(snaps))
             THEN <<Point(Head(snaps), tid)>> \o rest
             ELSE rest

\* lines 385-396 raise: show_trails is on and some trajectory indexed a
\* snapshot out of range
TrailFails(sim) ==
    /\ Len(sim.snapshots) > 1
    /\ LET track_ids == TrackIds(sim.particles.n_particles)
       IN  \E k \in 1..Len(track_ids) :
               LET trajectory == Trajectory(sim.snapshots, track_ids[k])
               IN  \E j \in 1..Len(trajectory) : trajectory[j] = IndexError

\* line 409: min(max(sim['current_time'] / sim['t_end'], 0.0), 1.0), in
\* thousandths; float division by 0.0 raises ZeroDivisionError
ProgressFails(sim) == sim.t_end = 0

Clamp(x) == IF x < 0 THEN 0 ELSE IF x > 1000 THEN 1000 ELSE x

Progress(sim) == Clamp((1000 * sim.current_time) \div sim.t_end)

\* the position of an instance in self.processors
Idx(P) == CHOOSE i \in 1..NumInst : processors[i] = P

\* the first iteration of the loop of line 327 that raises, 0 if none does
DrawFailsAt ==
    LET failing == {i \in 1..NumInst :
                       /\ simulations[processors[i]].particles # None
                       /\ \/ TrailFails(simulations[processors[i]])
                          \/ ProgressFails(simulations[processors[i]])}
    IN  IF failing = {} THEN 0
        ELSE CHOOSE i \in failing : \A j \in failing : i <= j

\* lines 327-484: every subplot in turn, with line 333
\* sim['rotation_angle'] += rotation_speed and the progress bar of line 409;
\* an exception leaves update_visualization from the iteration that raises
R_Draw ==
    /\ ren.pc = "draw"
    /\ LET at == DrawFailsAt
           reached(P) == at = 0 \/ Idx(P) <= at
           drawn(P) == simulations[P].particles # None /\ (at = 0 \/ Idx(P) < at)
       IN  /\ simulations' =
                  [P \in Insts |->
                      IF reached(P)
                      THEN [simulations[P] EXCEPT !.rotation_angle = @ + rotation_speed]
                      ELSE simulations[P]]
           /\ writers' =
                  [P \in Insts |->
                      IF reached(P)
                      THEN [writers[P] EXCEPT !["rotation_angle"] = @ \cup {"render"}]
                      ELSE writers[P]]
           /\ ren' = [ren EXCEPT
                         !.pc = IF at = 0 THEN "drawn" ELSE "aborted",
                         !.scene = [P \in Insts |->
                                       IF drawn(P) THEN Progress(simulations[P])
                                       ELSE -1]]
    /\ UNCHANGED <<running, data_queue, fs_data, fs_status, engine, mon,
                   observed, emitted, polls, decVars>>

\* line 488: return self.axes, the tick is over
R_Return ==
    /\ ren.pc = "drawn"
    /\ ren' = [ren EXCEPT !.pc = "idle", !.ticks = @ + 1, !.scene = None]
    /\ UNCHANGED <<running, simulations, data_queue, fs_data, fs_status, engine,
                   mon, observed, emitted, writers, polls, decVars>>

\* run(), lines 507-510: the window is closed, plt.show() returns, running = False
CloseWindow ==
    /\ ren.pc = "idle"
    /\ running
    /\ running' = FALSE
    /\ ren' = [ren EXCEPT !.pc = "join"]
    /\ UNCHANGED <<simulations, data_queue, fs_data, fs_status, engine, mon,
                   observed, emitted, writers, polls, decVars>>

\* the monitor thread has left monitor_files
MonitorEnded == mon.pc \in {"done", "crashed"}

\* run(), line 511: monitor_thread.join(timeout=1) returns because the thread ended
R_JoinDone ==
    /\ ren.pc = "join"
    /\ MonitorEnded
    /\ ren' = [ren EXCEPT !.pc = "stopped"]
    /\ UNCHANGED <<running, simulations, data_queue, fs_data, fs_status, engine, mon,
                   observed, emitted, writers, polls, decVars>>

\* run(), line 511: monitor_thread.join(timeout=1) returns because the second is up
R_JoinTimeout ==
    /\ ren.pc = "join"
    /\ ~MonitorEnded
    /\ ren' = [ren EXCEPT !.pc = "stopped"]
    /\ UNCHANGED <<running, simulations, data_queue, fs_data, fs_status, engine, mon,
                   observed, emitted, writers, polls, decVars>>

-----------------------------------------------------------------------------
(* The pipeline *)

\* the engines writing their artifacts
Engines ==
    \E P \in Insts :
        \/ E_Start(P)
        \/ E_Continue(P)

\* files appearing and disappearing in the instance directories
Files ==
    \E P \in Insts :
        \/ E_Remove(P)
        \/ E_Status(P)
        \/ E_StatusRemove(P)

Monitor ==
    \/ M_While
    \/ M_Exists
    \/ M_GetMtime
    \/ M_Size1
    \/ M_Size2
    \/ L_Size1
    \/ L_Size2
    \/ L_Open
    \/ M_Velocities
    \/ M_SetMtime
    \/ M_IncRead
    \/ M_IncWrite
    \/ M_Put
    \/ M_SetRunning
    \/ M_StatusExists
    \/ M_StatusOpen

Render ==
    \/ R_Tick
    \/ R_Get
    \/ R_Fold
    \/ R_Draw
    \/ R_Return

\* the pipeline fed by one engine
Next == Engines \/ Monitor \/ Render

Spec == Init /\ [][Next]_vars

\* the pipeline polling the first artifact of one engine
PollInit ==
    /\ PipeInit(OneEngine(MaxPollWrites), OneMarker)
    /\ decIn = <<>>
    /\ decOut = Pending

SpecPoll == PollInit /\ [][Next]_vars

\* the pipeline until run() has returned
StopInit ==
    /\ PipeInit(OneEngine(MaxStopWrites), OneMarker)
    /\ decIn = <<>>
    /\ decOut = Pending

Shutdown ==
    \/ CloseWindow
    \/ R_JoinDone
    \/ R_JoinTimeout

StopNext == Engines \/ Monitor \/ Render \/ Shutdown

\* the monitor is a thread of its own: the interpreter keeps scheduling it
SpecStop == StopInit /\ [][StopNext]_vars /\ WF_vars(Monitor)

-----------------------------------------------------------------------------
(* The render tick on its own, fed with the snapshots of the first instance *)

\* expected end times a phi-GPU4.cfg may hold (float(tokens[1]), line 109)
TEnds == {-2, 0, 2, t_end_default}

\* the k-th artifact of an engine whose single particle stays where it is
StillLines(k) == [SnapshotLines(1, 1) EXCEPT ![1] = <<I(k)>>, ![3] = <<F(k)>>]

\* lines 204-226 of a poll cycle that decoded the next snapshot of instance P,
\* run without interruption
M_Emit(P) ==
    /\ Len(emitted[P]) < MaxFeeds
    /\ Len(data_queue) < MaxBacklog
    /\ LET k     == Len(emitted[P]) + 1
           data0 == ParseSnapshot(StillLines(k))
           data  == [positions   |-> data0.positions,
                     masses      |-> data0.masses,
                     n_particles |-> data0.n_particles,
                     time        |-> data0.time,
                     velocities  |-> Velocities(simulations[P].particles, data0)]
           idx   == simulations[P].current_snapshot + 1
       IN  /\ simulations' = [simulations EXCEPT
                                 ![P].last_mtime = k,
                                 ![P].current_snapshot = idx,
                                 ![P].status = "running",
                                 ![P].start_time = [none |-> FALSE]]
           /\ \E load_time \in LoadTimes :
                  data_queue' = Append(data_queue, QueueItem(P, data, idx, load_time))
           /\ emitted' = [emitted EXCEPT ![P] = Append(@, data)]
    /\ UNCHANGED <<running, fs_data, fs_status, engine, mon, ren, observed,
                   writers, polls, decVars>>

RenderInit ==
    /\ \E t_end \in TEnds :
          PipeInitWith(OneEngine(0), OneMarker,
                       [P \in Insts |-> IF P = processors[1] THEN t_end
                                        ELSE t_end_default])
    /\ decIn = <<>>
    /\ decOut = Pending

RenderNext == M_Emit(processors[1]) \/ Render

SpecRender == RenderInit /\ [][RenderNext]_vars

\* particle counts of the snapshots handed to the render tick
TrailCounts == {1, 3, 12}

\* the k-th artifact of an engine whose n particles stay where they are
CrowdLines(k, n) ==
    <<<<I(k)>>, <<I(n)>>, <<F(k)>>>> \o [j \in 1..n |-> ParticleLine(j, 1)]

\* lines 204-226 of a poll cycle that decoded the next snapshot of instance P,
\* of any of the particle counts, run without interruption
M_EmitCrowd(P) ==
    /\ Len(emitted[P]) < MaxTrailFeeds
    /\ Len(data_queue) < MaxBacklog
    /\ \E n \in TrailCounts :
          LET k     == Len(emitted[P]) + 1
              data0 == ParseSnapshot(CrowdLines(k, n))
              data  == [positions   |-> data0.positions,
                        masses      |-> data0.masses,
                        n_particles |-> data0.n_particles,
                        time        |-> data0.time,
                        velocities  |-> Velocities(simulations[P].particles, data0)]
              idx   == simulations[P].current_snapshot + 1
          IN  /\ simulations' = [simulations EXCEPT
                                    ![P].last_mtime = k,
                                    ![P].current_snapshot = idx,
                                    ![P].status = "running",
                                    ![P].start_time = [none |-> FALSE]]
              /\ \E load_time \in LoadTimes :
                     data_queue' = Append(data_queue, QueueItem(P, data, idx, load_time))
              /\ emitted' = [emitted EXCEPT ![P] = Append(@, data)]
    /\ UNCHANGED <<running, fs_data, fs_status, engine, mon, ren, observed,
                   writers, polls, decVars>>

TrailsInit ==
    /\ PipeInit(OneEngine(0), OneMarker)
    /\ decIn = <<>>
    /\ decOut = Pending

TrailsNext == M_EmitCrowd(processors[1]) \/ Render

\* the render tick fed with snapshots whose particle counts change
SpecTrails == TrailsInit /\ [][TrailsNext]_vars

\* the pipeline with the files of every instance directory coming and going
FilesInit ==
    /\ PipeInit(OneEngine(MaxFileWrites), [P \in Insts |-> NoMarker])
    /\ decIn = <<>>
    /\ decOut = Pending

FilesNext == Engines \/ Files \/ Monitor \/ Render

SpecFiles == FilesInit /\ [][FilesNext]_vars

-----------------------------------------------------------------------------
(* The pipeline started on the leftover of a killed engine *)

\* the data.con of an engine killed half way through its first snapshot
LeftOver ==
    [exists |-> TRUE, mtime |-> 1, lines |-> PartialLines(1, 4), ver |-> 1]

\* the first instance directory holds the leftover and nothing writes it any
\* more; the engine of the second instance runs
LeftoverInit ==
    /\ running = TRUE
    /\ simulations = [P \in Insts |-> SimInit(P)]
    /\ data_queue = <<>>
    /\ fs_data = [P \in Insts |->
                     IF P = processors[1] THEN LeftOver
                     ELSE [exists |-> FALSE, mtime |-> 0, lines |-> <<>>, ver |-> 0]]
    /\ fs_status = OneMarker
    /\ engine = [P \in Insts |->
                    IF P = processors[1]
                    THEN [k |-> 1, n |-> 4, stage |-> "partial", left |-> 0]
                    ELSE [k |-> 0, n |-> 0, stage |-> "full",
                          left |-> IF P = processors[2] THEN MaxLeftoverWrites ELSE 0]]
    /\ mon = MonLocals
    /\ ren = RenInit
    /\ observed = [P \in Insts |-> <<>>]
    /\ emitted = [P \in Insts |-> <<>>]
    /\ writers = [P \in Insts |-> [f \in Fields |-> {}]]
    /\ polls = [P \in Insts |-> "none"]
    /\ decIn = <<>>
    /\ decOut = Pending

SpecLeftover == LeftoverInit /\ [][Next]_vars

-----------------------------------------------------------------------------
(* The decoder on its own: load_snapshot applied to every small artifact *)

GoodLine == ParticleLine(1, 1)
\* seven fields only
ShortLine == SubSeq(GoodLine, 1, 7)
\* numeric mass, non-numeric x
BadCoordLine == [GoodLine EXCEPT ![3] = W]
\* non-numeric mass
BadMassLine == [GoodLine EXCEPT ![2] = W]

DecLines ==
    {<<I(0)>>, <<I(-1)>>, <<I(1)>>, <<I(2)>>, <<F(1)>>, <<W>>,
     GoodLine, ShortLine, BadCoordLine, BadMassLine}

Artifacts == UNION {[1..len -> DecLines] : len \in 0..MaxLines}

DecInit ==
    /\ PipeInit(OneEngine(0), OneMarker)
    /\ decIn \in Artifacts
    /\ decOut = Pending

Dec_Load ==
    /\ decOut = Pending
    /\ decOut' = LoadStable(decIn)
    /\ UNCHANGED <<decIn, pipeVars>>

DecNext == Dec_Load

SpecDecode == DecInit /\ [][DecNext]_vars

-----------------------------------------------------------------------------
(* The first generation of the visualizer (src/N-Body/realtime_visualizer.py): *)
(* its load_snapshot (lines 104-134)                                          *)

\* an exception left the loop
Raised == [raised |-> TRUE]

\* one iteration of the particle loop (lines 121-124): a line of fewer than 8
\* fields is skipped, a float() that fails raises
ParseLine1(parts, acc) ==
    IF Len(parts) >= 8
    THEN IF /\ FloatTokOk(parts[2]) /\ FloatTokOk(parts[3])
            /\ FloatTokOk(parts[4]) /\ FloatTokOk(parts[5])
         THEN [masses    |-> Append(acc.masses, parts[2].v),
               positions |-> Append(acc.positions,
                                    <<parts[3].v, parts[4].v, parts[5].v>>)]
         ELSE Raised
    ELSE acc

\* for i in range(3, min(3 + n_particles, len(lines))), 1-based here
RECURSIVE ParseParticles1(_, _, _, _)
ParseParticles1(lines, i, last, acc) ==
    IF acc = Raised \/ i > last THEN acc
    ELSE ParseParticles1(lines, i + 1, last, ParseLine1(lines[i], acc))

Min(a, b) == IF a < b THEN a ELSE b

\* the lines read, what the first-generation load_snapshot returns: the
\* function ends without a return statement when no position was parsed
LoadSnapshot1(lines) ==
    IF Len(lines) < 4 THEN None
    ELSE IF ~IntOk(lines[2]) THEN None
    ELSE LET n_particles == lines[2][1].v
             acc == ParseParticles1(lines, 4, Min(3 + n_particles, Len(lines)),
                                    [masses |-> <<>>, positions |-> <<>>])
         IN  IF acc = Raised THEN None
             ELSE IF acc.positions # <<>>
             THEN [positions   |-> acc.positions,
                   masses      |-> acc.masses,
                   n_particles |-> Len(acc.positions)]
             ELSE None

Dec_Load1 ==
    /\ decOut = Pending
    /\ decOut' = LoadSnapshot1(decIn)
    /\ UNCHANGED <<decIn, pipeVars>>

DecNext1 == Dec_Load1

\* the first-generation decoder applied to every small artifact
SpecDecode1 == DecInit /\ [][DecNext1]_vars

-----------------------------------------------------------------------------
(* The first generation: monitor_files (lines 74-102) and the drain of        *)
(* update_visualization (lines 136-222).  The engine leaves one file per      *)
(* snapshot, snapshot_<k>.dat, in the directory <dir>/snapshots; here         *)
(* fs_data[N] is that directory: whether it exists and how many files it      *)
(* holds.  self.sizes = [1, 2, 4, 8] are the instances.                       *)

\* the dict of lines 48-56
SimInit1(N) ==
    [particles        |-> None,
     current_snapshot |-> -1,
     snapshots        |-> <<>>,
     status           |-> "waiting"]

\* the locals of monitor_files: `snapshots` is len(snapshots) of line 82
Mon1Locals ==
    [pc |-> "while", i |-> 1, snapshots |-> 0, next_idx |-> 0, data |-> Unset]

Gen1Init ==
    /\ running = TRUE
    /\ simulations = [N \in Insts |-> SimInit1(N)]
    /\ data_queue = <<>>
    /\ fs_data = [N \in Insts |-> [exists |-> FALSE, files |-> 0]]
    /\ fs_status = OneMarker
    /\ engine = [N \in Insts |->
                    [left |-> IF N = processors[1] THEN MaxSnapshotFiles ELSE 0]]
    /\ mon = Mon1Locals
    /\ ren = [pc |-> "idle", ticks |-> 0, item |-> None]
    /\ observed = [N \in Insts |-> <<>>]
    /\ emitted = [N \in Insts |-> <<>>]
    /\ writers = [N \in Insts |-> [f \in Fields |-> {}]]
    /\ polls = [N \in Insts |-> "none"]
    /\ decIn = <<>>
    /\ decOut = Pending

\* the engine leaves its next snapshot file, complete
E1_Snapshot(N) ==
    /\ engine[N].left > 0
    /\ engine' = [engine EXCEPT ![N].left = @ - 1]
    /\ fs_data' = [fs_data EXCEPT ![N] = [exists |-> TRUE, files |-> @.files + 1]]
    /\ UNCHANGED <<running, simulations, data_queue, fs_status, mon, ren,
                   observed, emitted, writers, polls, decVars>>

\* the file sorted(glob(...))[idx] holds, 0-based
SnapshotFile(idx) == StillLines(idx + 1)

\* leave the snapshot block for "# Verificar estado" (line 96)
ToStatus1 == [Mon1Locals EXCEPT !.pc = "status_exists", !.i = mon.i]

\* next instance of the for-loop, or time.sleep(0.05) and back to the while
NextInstance1 ==
    IF mon.i < NumInst
    THEN [Mon1Locals EXCEPT !.pc = "exists", !.i = mon.i + 1]
    ELSE Mon1Locals

\* line 76: while self.running
M1_While ==
    /\ mon.pc = "while"
    /\ mon' = IF running THEN [Mon1Locals EXCEPT !.pc = "exists"]
                         ELSE [Mon1Locals EXCEPT !.pc = "done"]
    /\ UNCHANGED <<running, simulations, data_queue, fs_data, fs_status, engine,
                   ren, observed, emitted, writers, polls, decVars>>

\* line 80: os.path.exists(snapshot_dir)
M1_Exists ==
    /\ mon.pc = "exists"
    /\ Len(emitted[CurP]) < MaxPuts1
    /\ mon' = IF fs_data[CurP].exists THEN [mon EXCEPT !.pc = "glob"]
                                      ELSE ToStatus1
    /\ UNCHANGED <<running, simulations, data_queue, fs_data, fs_status, engine,
                   ren, observed, emitted, writers, polls, decVars>>

\* line 82: snapshots = sorted(glob.glob(...))
M1_Glob ==
    /\ mon.pc = "glob"
    /\ mon' = [mon EXCEPT !.pc = "test", !.snapshots = fs_data[CurP].files]
    /\ UNCHANGED <<running, simulations, data_queue, fs_data, fs_status, engine,
                   ren, observed, emitted, writers, polls, decVars>>

\* line 84: if snapshots and len(snapshots) > sim['current_snapshot'] + 1
M1_Test ==
    /\ mon.pc = "test"
    /\ mon' = IF /\ mon.snapshots > 0
                 /\ mon.snapshots > simulations[CurP].current_snapshot + 1
              THEN [mon EXCEPT !.pc = "next_idx"]
              ELSE ToStatus1
    /\ UNCHANGED <<running, simulations, data_queue, fs_data, fs_status, engine,
                   ren, observed, emitted, writers, polls, decVars>>

\* lines 86-87: next_idx = sim['current_snapshot'] + 1 and its range test
M1_NextIdx ==
    /\ mon.pc = "next_idx"
    /\ LET next_idx == simulations[CurP].current_snapshot + 1
       IN  mon' = IF next_idx < mon.snapshots
                  THEN [mon EXCEPT !.pc = "load", !.next_idx = next_idx]
                  ELSE ToStatus1
    /\ UNCHANGED <<running, simulations, data_queue, fs_data, fs_status, engine,
                   ren, observed, emitted, writers, polls, decVars>>

\* lines 89-90: data = self.load_snapshot(snapshots[next_idx])
M1_Load ==
    /\ mon.pc = "load"
    /\ LET data == LoadSnapshot1(SnapshotFile(mon.next_idx))
       IN  mon' = IF data # None THEN [mon EXCEPT !.pc = "put", !.data = data]
                                 ELSE ToStatus1
    /\ UNCHANGED <<running, simulations, data_queue, fs_data, fs_status, engine,
                   ren, observed, emitted, writers, polls, decVars>>

\* the tuple of line 91
QueueItem1(N, data, idx) == [P |-> N, data |-> data, snapshot_idx |-> idx]

\* line 91: self.data_queue.put((N, data, next_idx))
M1_Put ==
    /\ mon.pc = "put"
    /\ data_queue' = Append(data_queue, QueueItem1(CurP, mon.data, mon.next_idx))
    /\ emitted' = [emitted EXCEPT ![CurP] =
                      Append(@, QueueItem1(CurP, mon.data, mon.next_idx))]
    /\ mon' = [mon EXCEPT !.pc = "set_running", !.data = Unset, !.next_idx = 0,
                          !.snapshots = 0]
    /\ UNCHANGED <<running, simulations, fs_data, fs_status, engine,
                   ren, observed, writers, polls, decVars>>

\* line 92: sim['status'] = 'running'
M1_SetRunning ==
    /\ mon.pc = "set_running"
    /\ simulations' = [simulations EXCEPT ![CurP].status = "running"]
    /\ mon' = ToStatus1
    /\ UNCHANGED <<running, data_queue, fs_data, fs_status, engine,
                   ren, observed, emitted, writers, polls, decVars>>

\* line 98: os.path.exists(status_file)
M1_StatusExists ==
    /\ mon.pc = "status_exists"
    /\ mon' = IF fs_status[CurP].exists THEN [mon EXCEPT !.pc = "status_open"]
                                        ELSE NextInstance1
    /\ UNCHANGED <<running, simulations, data_queue, fs_data, fs_status, engine,
                   ren, observed, emitted, writers, polls, decVars>>

\* lines 99-100: open and sim['status'] = f.read().strip(); no handler encloses
\* them
M1_StatusOpen ==
    /\ mon.pc = "status_open"
    /\ IF fs_status[CurP].exists
       THEN /\ simulations' = [simulations EXCEPT
                                  ![CurP].status = Strip(fs_status[CurP].text)]
            /\ mon' = NextInstance1
       ELSE /\ mon' = [Mon1Locals EXCEPT !.pc = "crashed", !.i = mon.i]
            /\ UNCHANGED simulations
    /\ UNCHANGED <<running, data_queue, fs_data, fs_status, engine,
                   ren, observed, emitted, writers, polls, decVars>>

\* FuncAnimation fires the callback
R1_Tick ==
    /\ ren.pc = "idle"
    /\ ren.ticks < MaxTicks
    /\ ren' = [ren EXCEPT !.pc = "drain"]
    /\ UNCHANGED <<running, simulations, data_queue, fs_data, fs_status, engine,
                   mon, observed, emitted, writers, polls, decVars>>

\* lines 140-144: the emptiness test, get_nowait and sim['particles'] = data
R1_Get ==
    /\ ren.pc = "drain"
    /\ IF data_queue = <<>>
       THEN /\ ren' = [ren EXCEPT !.pc = "draw"]
            /\ UNCHANGED <<simulations, data_queue, observed>>
       ELSE LET item == Head(data_queue)
            IN  /\ data_queue' = Tail(data_queue)
                /\ simulations' = [simulations EXCEPT ![item.P].particles = item.data]
                /\ observed' = [observed EXCEPT ![item.P] = Append(@, item.snapshot_idx)]
                /\ ren' = [ren EXCEPT !.pc = "fold", !.item = item]
    /\ UNCHANGED <<running, fs_data, fs_status, engine, mon, emitted, writers,
                   polls, decVars>>

\* lines 145-146: sim['current_snapshot'] = snapshot_idx and the trail history
R1_Fold ==
    /\ ren.pc = "fold"
    /\ simulations' = [simulations EXCEPT
                          ![ren.item.P].current_snapshot = ren.item.snapshot_idx,
                          ![ren.item.P].snapshots = DequeAppend(@, ren.item.data)]
    /\ ren' = [ren EXCEPT !.pc = "drain", !.item = None]
    /\ UNCHANGED <<running, data_queue, fs_data, fs_status, engine, mon,
                   observed, emitted, writers, polls, decVars>>

\* lines 151-222: the subplots are redrawn and the tick returns
R1_Draw ==
    /\ ren.pc = "draw"
    /\ ren' = [ren EXCEPT !.pc = "idle", !.ticks = @ + 1]
    /\ UNCHANGED <<running, simulations, data_queue, fs_data, fs_status, engine,
                   mon, observed, emitted, writers, polls, decVars>>

Engines1 == \E N \in Insts : E1_Snapshot(N)

Monitor1 ==
    \/ M1_While
    \/ M1_Exists
    \/ M1_Glob
    \/ M1_Test
    \/ M1_NextIdx
    \/ M1_Load
    \/ M1_Put
    \/ M1_SetRunning
    \/ M1_StatusExists
    \/ M1_StatusOpen

Render1 ==
    \/ R1_Tick
    \/ R1_Get
    \/ R1_Fold
    \/ R1_Draw

Gen1Next == Engines1 \/ Monitor1 \/ Render1

SpecGen1 == Gen1Init /\ [][Gen1Next]_vars

-----------------------------------------------------------------------------
(* Properties *)

\* C1: for every instance, the sequence indices the render tick dequeues are
\* non-decreasing over the whole run, whatever the interleaving of the monitor
\* thread with the render tick
C1_IndicesNonDecreasing ==
    \A P \in Insts :
        \A a, b \in 1..Len(observed[P]) :
            a < b => observed[P][a] <= observed[P][b]

\* C2: the same artifact content is never enqueued twice for one instance,
\* whatever the interleaving of the engine's writes with a poll cycle
C2_EmittedOnce ==
    \A P \in Insts :
        \A a, b \in 1..Len(emitted[P]) :
            a < b => Content(emitted[P][a]) # Content(emitted[P][b])

\* C3: no field of an instance dict is ever written by more than one thread
C3_SingleWriter ==
    \A P \in Insts : \A f \in Fields : Cardinality(writers[P][f]) <= 1

\* a poll cycle of the current instance is under way
InCycle == mon.pc \notin {"while", "exists", "done", "crashed"}

\* C4: a poll cycle in which the two size reads of a stability check differ, or
\* the size is 0, enqueues nothing for the instance and leaves its last_mtime
\* and its sequence counter as they were
C4_TornPollEmitsNothing ==
    (InCycle /\ mon.torn) =>
        /\ Len(emitted[CurP]) = mon.emits0
        /\ simulations[CurP].last_mtime = mon.marker0
        /\ mon.incs = 0

\* a torn cycle of an existing artifact has been abandoned
C4_Witness ==
    /\ mon.pc = "status_exists"
    /\ mon.torn
    /\ mon.outcome = "unstable"
    /\ fs_data[CurP].exists

\* the artifact of the instance polled has not been touched since the cycle began
CleanCycle == InCycle /\ fs_data[CurP].ver = mon.ver0

\* the poll cycle has left the data.con block
CycleOver == mon.pc \in {"status_exists", "status_open"}

\* the snapshot held by the complete first artifact of four particles
FirstSnapshot ==
    [positions   |-> <<<<1, 1, 0>>, <<2, 2, 0>>, <<3, 3, 0>>, <<4, 4, 0>>>>,
     masses      |-> <<1, 2, 3, 4>>,
     n_particles |-> 4,
     time        |-> 1]

\* C5: while the first artifact grows from 0 bytes to its complete four
\* particles nothing is enqueued; the poll that then finds it complete and
\* stable enqueues exactly one snapshot, equal to the complete content, and
\* marks it; a later poll of the unchanged file enqueues nothing more
C5_GrowingArtifact ==
    /\ \A P \in Insts :
          (engine[P].k = 1 /\ fs_data[P].lines # SnapshotLines(1, 4))
              => emitted[P] = <<>>
    /\ (CleanCycle /\ CycleOver /\ mon.emits0 = 0
           /\ fs_data[CurP].exists /\ fs_data[CurP].lines = SnapshotLines(1, 4))
          => /\ Len(emitted[CurP]) = 1
             /\ Content(emitted[CurP][1]) = FirstSnapshot
             /\ simulations[CurP].last_mtime = fs_data[CurP].mtime
    /\ (CleanCycle /\ fs_data[CurP].exists
           /\ mon.marker0 = fs_data[CurP].mtime)
          => Len(emitted[CurP]) = mon.emits0

\* the poll before was torn, this one found the complete artifact and enqueued it
C5_Witness ==
    /\ CleanCycle
    /\ CycleOver
    /\ polls[CurP] = "torn"
    /\ mon.emits0 = 0
    /\ mon.outcome = "emitted"
    /\ fs_data[CurP].lines = SnapshotLines(1, 4)

\* C6: a poll cycle whose load_snapshot returned None does not advance
\* last_mtime, does not increment the sequence counter and enqueues nothing, so
\* that the artifact still passes the marker test of the next poll
C6_RejectedPollRetried ==
    (InCycle /\ mon.outcome = "rejected") =>
        /\ Len(emitted[CurP]) = mon.emits0
        /\ simulations[CurP].last_mtime = mon.marker0
        /\ mon.incs = 0
        /\ fs_data[CurP].exists =>
               fs_data[CurP].mtime > simulations[CurP].last_mtime

\* the artifact rejected by the poll before was decoded and rejected again
C6_Witness ==
    /\ mon.pc = "status_exists"
    /\ mon.outcome = "rejected"
    /\ ~mon.torn
    /\ polls[CurP] = "rejected"
    /\ CleanCycle

\* a particle line as the artifact format defines it: at least 8 fields,
\* numeric mass and x, y, z
WellFormed(parts) ==
    /\ Len(parts) >= 8
    /\ \A c \in 2..5 : parts[c].k \in {"int", "float"}

\* the particle count declared on line 1 (0-based) of the artifact
Declared(lines) == lines[2][1].v

\* the well-formed lines among lines 3 .. 3 + particle_count - 1 (0-based)
WellFormedCount(lines) ==
    Cardinality({i \in 4..(3 + Declared(lines)) :
                    i <= Len(lines) /\ WellFormed(lines[i])})

\* C7: an artifact whose declared particle count exceeds the number of
\* well-formed particle lines in its range yields no snapshot at all
C7_NoPartialSnapshot ==
    (/\ decOut # Pending
     /\ Len(decIn) >= 2
     /\ IntOk(decIn[2])
     /\ Declared(decIn) > WellFormedCount(decIn))
        => decOut = None

\* two particles declared, all lines present, one of the two well-formed
C7_Witness ==
    /\ decOut = None
    /\ Len(decIn) = 5
    /\ IntOk(decIn[2])
    /\ FloatOk(decIn[3])
    /\ Declared(decIn) = 2
    /\ WellFormedCount(decIn) = 1

\* C8: every snapshot load_snapshot returns has as many positions as masses, as
\* many as its n_particles, as many as the artifact declares
C8_CountsAgree ==
    (decOut # Pending /\ decOut # None) =>
        /\ Len(decOut.positions) = Len(decOut.masses)
        /\ Len(decOut.masses) = decOut.n_particles
        /\ decOut.n_particles = Declared(decIn)

\* a snapshot of two particles was returned
C8_Witness ==
    /\ decOut # Pending
    /\ decOut # None
    /\ decOut.n_particles = 2

\* C9: the velocities of a snapshot enqueued after another one of the same
\* instance are the index-aligned distances to that one's positions if the
\* counts agree, zeros if not, consumed or not
C9_VelocitiesFromPrevious ==
    \A P \in Insts :
        \A a \in 2..Len(emitted[P]) :
            LET prev == emitted[P][a - 1]
                cur  == emitted[P][a]
            IN  cur.velocities =
                    IF Len(prev.positions) = Len(cur.positions)
                    THEN RowNorms(cur.positions, prev.positions)
                    ELSE Zeros(Len(cur.positions))

\* C10: no error raised while polling an instance ends the monitor thread
C10_MonitorSurvives == mon.pc # "crashed"

\* C11: once run() has returned (running = False set, the monitor thread
\* joined with its timeout), nothing more is put on the queue
C11_NoPutAfterStop ==
    [][ren.pc = "stopped" => (data_queue' = data_queue /\ emitted' = emitted)]_vars

\* C18: once running is False the monitor thread eventually leaves
\* monitor_files, and the while test of line 182 starts no further iteration
C18_MonitorStops ==
    /\ (~running) ~> (mon.pc = "done")
    /\ [][(~running /\ mon.pc = "while") => mon'.pc \in {"while", "done"}]_vars

\* the flag is down and the thread has ended after polling every instance
C18_Witness ==
    /\ ~running
    /\ mon.pc = "done"
    /\ \A P \in Insts : polls[P] # "none"

\* C19: once a poll cycle that began after the last write of a complete,
\* well-formed artifact is over and the queue holds nothing more for the
\* instance, the instance's latest snapshot is the decoded content of that
\* artifact, whatever modification timestamp the last write left
C19_FinalArtifactShown ==
    (/\ CleanCycle
     /\ CycleOver
     /\ fs_data[CurP].exists
     /\ ParseSnapshot(fs_data[CurP].lines) # None
     /\ \A n \in 1..Len(data_queue) : data_queue[n].P # CurP)
        => /\ simulations[CurP].particles # None
           /\ Content(simulations[CurP].particles) = ParseSnapshot(fs_data[CurP].lines)

\* C20: within a poll cycle last_mtime is advanced only once the snapshot has
\* been put on the queue
C20_MarkerAfterPut ==
    (InCycle /\ simulations[CurP].last_mtime # mon.marker0)
        => Len(emitted[CurP]) > mon.emits0

\* C13: as long as the data.con of an instance has never existed, its status
\* is 'waiting', nothing has been enqueued for it, and no exception has ended
\* the monitor thread
C13_NeverExistingArtifact ==
    \A P \in Insts :
        fs_data[P].ver = 0 =>
            /\ simulations[P].status = "waiting"
            /\ emitted[P] = <<>>
            /\ mon.pc # "crashed"

\* C12: the trail history of an instance never holds more than trail_length
\* entries: it holds the last trail_length snapshots folded in, oldest first
C12_TrailBounded ==
    \A P \in Insts :
        LET n == Len(simulations[P].processing_times)
            first == IF n > trail_length THEN n - trail_length + 1 ELSE 1
        IN  /\ Len(simulations[P].snapshots) <= trail_length
            /\ simulations[P].snapshots = SubSeq(emitted[P], first, n)

\* more snapshots than the trail holds have been folded in
C12_Witness ==
    \E P \in Insts :
        /\ Len(simulations[P].processing_times) > trail_length
        /\ Len(simulations[P].snapshots) = trail_length

\* current_time / t_end clamped to [0, 1], in thousandths, for a time >= 0
\* and an expected end time other than 0
ClampedFraction(current_time, t_end) ==
    IF t_end < 0 THEN 0
    ELSE IF current_time >= t_end THEN 1000
    ELSE (1000 * current_time) \div t_end

\* C14: the progress fraction a tick emits for an instance with a snapshot is
\* current_time / t_end clamped to [0, 1], whatever t_end the cfg supplies, and
\* computing it never aborts the tick
C14_ProgressClamped ==
    /\ ren.pc # "aborted"
    /\ ren.pc = "drawn" =>
          \A P \in Insts :
              (simulations[P].particles # None /\ simulations[P].t_end # 0)
                  => ren.scene[P] = ClampedFraction(simulations[P].current_time,
                                                    simulations[P].t_end)

\* C15: a tick takes every item queued when it began, oldest first, without
\* waiting, and completes, with an empty queue too
C15_TickDrains ==
    /\ [](ren.pc \in {"draw", "drawn", "aborted"} => ren.pending = 0)
    /\ [](ren.pc \in {"idle", "drain", "fold", "draw", "drawn"})
    /\ [][(ren.pc = "drain" /\ data_queue # <<>> /\ ren' # ren)
             => (ren'.item = Head(data_queue) /\ data_queue' = Tail(data_queue))]_vars

\* a render step that folds an item of instance P
Folding(P) ==
    \/ ren.pc = "drain" /\ data_queue # <<>> /\ Head(data_queue).P = P
    \/ ren.pc = "fold" /\ ren.item.P = P

\* C16: the steps of a tick that fold no item of an instance change nothing of
\* that instance but rotation_angle, which the tick advances by rotation_speed
\* for every instance
C16_OnlyRotationAdvances ==
    [][ren' # ren =>
          \A P \in Insts :
              /\ ~Folding(P) =>
                    simulations'[P] =
                        [simulations[P] EXCEPT !.rotation_angle = simulations'[P].rotation_angle]
              /\ simulations'[P].rotation_angle =
                    IF ren.pc = "draw"
                    THEN simulations[P].rotation_angle + rotation_speed
                    ELSE simulations[P].rotation_angle]_vars

\* line 437: the mean decode duration is taken over processing_times[-10:]
latency_window == 10

\* C21: the decode-latency samples stored for an instance never number more
\* than the window of the throughput estimate, however many snapshots were
\* accepted
C21_LatenciesBounded ==
    \A P \in Insts : Len(simulations[P].processing_times) <= latency_window

\* the status marker of instance P reports completion
MarkerDone(P) == fs_status[P].exists /\ Strip(fs_status[P].text) = "done"

\* C22: once the status of an instance is the completion value read from its
\* marker, and the marker keeps reporting completion, no step leaves the
\* instance with another status in a state the render tick is about to draw
C22_DoneIsTerminal ==
    [][\A P \in Insts :
          (/\ simulations[P].status = "done"
           /\ MarkerDone(P)
           /\ fs_status'[P] = fs_status[P]
           /\ ren'.pc = "draw")
              => simulations'[P].status = "done"]_vars

\* C23: the poll step of an instance ends with the status equal to the
\* stripped content of the marker if line 232 found the marker, and with the
\* status left as it was if it did not; neither way raises an error
C23_StatusFollowsMarker ==
    [][(mon.pc \in {"status_exists", "status_open"} /\ mon' # mon) =>
          IF mon.pc = "status_exists" /\ ~fs_status[CurP].exists
          THEN simulations' = simulations /\ mon'.pc # "crashed"
          ELSE \/ mon'.pc = "status_open"
               \/ /\ mon'.pc # "crashed"
                  /\ simulations'[CurP].status = Strip(fs_status[CurP].text)]_vars

\* nothing has written the artifact of instance P since construction
Untouched(P) == fs_data[P] = LeftOver

\* C24: load_snapshot is not started again on an artifact that the last poll
\* of the instance decoded and rejected and that nothing has written since
C24_RejectedNotDecodedAgain ==
    ~(/\ mon.pc = "l_open"
      /\ polls[CurP] = "rejected"
      /\ Untouched(CurP))

\* C26: the first-generation load_snapshot returns nothing for an artifact of
\* fewer than 3 + particle_count lines or of fewer than particle_count
\* well-formed particle lines, and no snapshot it returns has fewer particles
\* than the header declares
C26_Gen1RejectsPartial ==
    (decOut # Pending /\ Len(decIn) >= 2 /\ IntOk(decIn[2])) =>
        /\ (\/ Len(decIn) < 3 + Declared(decIn)
            \/ Declared(decIn) > WellFormedCount(decIn)) => decOut = None
        /\ decOut # None => decOut.n_particles >= Declared(decIn)

\* C25: in the first generation no snapshot index of an instance is put on the
\* queue twice, whatever the interleaving of the polls with the render ticks
C25_Gen1EnqueuedOnce ==
    \A N \in Insts :
        \A a, b \in 1..Len(emitted[N]) :
            a < b => emitted[N][a].snapshot_idx # emitted[N][b].snapshot_idx

\* C27: last_mtime of an instance never decreases; only the poll cycle of that
\* instance changes it, never a render step nor the poll of another instance,
\* and a cycle that changed it has enqueued a snapshot of the instance when it
\* is over
C27_MarkerMonotonic ==
    /\ [][\A P \in Insts :
             simulations'[P].last_mtime # simulations[P].last_mtime =>
                 /\ simulations'[P].last_mtime > simulations[P].last_mtime
                 /\ InCycle
                 /\ P = CurP
                 /\ mon' # mon
                 /\ ren' = ren]_vars
    /\ []((CycleOver /\ simulations[CurP].last_mtime # mon.marker0) =>
              /\ Len(emitted[CurP]) = mon.emits0 + 1
              /\ mon.outcome = "emitted")

\* a poll cycle that advanced the marker is over and its snapshot is folded in
C27_Witness ==
    /\ CycleOver
    /\ simulations[CurP].last_mtime > mon.marker0
    /\ mon.outcome = "emitted"
    /\ simulations[CurP].snapshots # <<>>

\* the drain of the tick is over, or no tick is under way
Drained == ren.pc \in {"idle", "draw", "drawn", "aborted"}

\* C28: once a tick has drained the queue, for every instance the latest
\* snapshot is absent exactly when the trail history is empty and exactly when
\* no decode-latency sample is stored; a latest snapshot that is present is the
\* newest entry of the trail history, and velocities and current_time are its own
C28_FoldConsistent ==
    Drained =>
        \A P \in Insts :
            LET sim == simulations[P]
            IN  /\ (sim.particles = None) <=> (sim.snapshots = <<>>)
                /\ (sim.particles = None) <=> (sim.processing_times = <<>>)
                /\ sim.particles # None =>
                       /\ sim.snapshots[Len(sim.snapshots)] = sim.particles
                       /\ sim.velocities = sim.particles.velocities
                       /\ sim.current_time = sim.particles.time

\* two ticks have returned, the second one after folding a later snapshot in
C28_Witness ==
    /\ ren.pc = "idle"
    /\ ren.ticks = 2
    /\ Len(simulations[processors[1]].snapshots) >= 2
    /\ simulations[processors[1]].current_time >= 2
    /\ simulations[processors[2]].particles = None

\* C29: load_snapshot returns nothing for an artifact that declares zero or a
\* negative particle count, and every snapshot it returns has n_particles >= 1
C29_NoEmptySnapshot ==
    decOut # Pending =>
        /\ (Len(decIn) >= 2 /\ IntOk(decIn[2]) /\ Declared(decIn) <= 0)
               => decOut = None
        /\ decOut # None => (decOut.n_particles >= 1 /\ decOut.positions # <<>>)

\* a complete header declaring zero particles, followed by a particle line,
\* was rejected
C29_Witness ==
    /\ decOut = None
    /\ Len(decIn) >= 4
    /\ IntOk(decIn[2])
    /\ FloatOk(decIn[3])
    /\ Declared(decIn) = 0
    /\ WellFormed(decIn[4])

\* the points of particle tid in the snapshots of a history that hold more
\* than tid particles, oldest first
PointsOf(snaps, tid) ==
    LET has == SelectSeq(snaps, LAMBDA snap : Len(snap.positions) > tid)
    IN  [j \in 1..Len(has) |-> has[j].positions[tid + 1]]

\* C30: the particles traced are min(10, n) indices spread over 0..n-1 from
\* the first to the last, a function of the particle count n of the latest
\* snapshot alone; the trail of an index takes its points from exactly the
\* history snapshots holding more particles than the index, and indexes none
\* out of range
C30_TrailsInRange ==
    \A P \in Insts :
        simulations[P].particles # None =>
            LET sim       == simulations[P]
                n         == sim.particles.n_particles
                track_ids == TrackIds(n)
            IN  /\ Len(track_ids) = (IF n < 10 THEN n ELSE 10)
                /\ track_ids[1] = 0
                /\ track_ids[Len(track_ids)] = n - 1
                /\ \A k \in 1..Len(track_ids) :
                      /\ track_ids[k] \in 0..(n - 1)
                      /\ \A l \in 1..(k - 1) : track_ids[l] < track_ids[k]
                      /\ Trajectory(sim.snapshots, track_ids[k]) =
                             PointsOf(sim.snapshots, track_ids[k])
                /\ ~TrailFails(sim)

\* a tick drew the trails of a latest snapshot of twelve particles over a
\* history that also holds snapshots of one and of three particles
C30_Witness ==
    /\ ren.pc = "drawn"
    /\ LET sim == simulations[processors[1]]
       IN  /\ sim.particles # None
           /\ sim.particles.n_particles = 12
           /\ Len(sim.snapshots) = 3
           /\ \E a, b \in 1..2 :
                 /\ sim.snapshots[a].n_particles = 1
                 /\ sim.snapshots[b].n_particles = 3

====
